---- MODULE Spec2Model ----
(***************************************************************************)
(* The agentic tool-use loop of scripts/tool_use.py: agent() calls the     *)
(* model endpoint, dispatches the tool_use blocks of the response to the   *)
(* handlers of HANDLERS, appends the assistant message and the tool        *)
(* results to the conversation and loops, until the endpoint ends the      *)
(* turn, an error is raised or max_turns round trips were made.            *)
(*                                                                         *)
(* Python values are modelled as follows: a str is a TLA+ string, a list   *)
(* is a sequence, a dict is a record with the same keys, and a call that   *)
(* may raise yields [tag |-> "return", value |-> v] or                     *)
(* [tag |-> "raise", exc |-> e].  The two HTTP collaborators (the model    *)
(* endpoint and the METAR service) are the environment: each call picks    *)
(* one of the outcomes the requests library can produce.                   *)
(***************************************************************************)
EXTENDS Integers, Sequences, FiniteSets, TLC

(***************************************************************************)
(* Bounds of the model.                                                    *)
(***************************************************************************)
\* Largest max_turns an invocation passes explicitly.
MaxTurnsArg == 2
\* Content blocks the endpoint returns in total over one invocation that
\* passes max_turns.
MaxTotalBlocks == 2
\* The same for an invocation that leaves max_turns to its default.
MaxBlocksDefaultRun == 1

\* Largest id of a row of pyex_todos before the todo command runs.
MaxTodoId == 2
\* encode.py is run on every n of 1..MaxN and on the n of LargeNs.
MaxN == 300

\* def agent(prompt, max_turns=10)
DefaultMaxTurns == 10

(***************************************************************************)
(* Inputs: what the caller and the two HTTP services may supply.           *)
(***************************************************************************)
Prompts == {"Weather in NYC?", "Compare KJFK and KORD."}
Texts == {"A", "B"}
ToolUseIds == {"toolu_1", "toolu_2"}
ToolNames == {"get_weather", "get_time"}
Stations == {"KJFK"}
StopReasons == {"end_turn", "tool_use", "max_tokens"}
\* Non-success statuses of the model endpoint and of the METAR service.
ApiErrorStatuses == {429, 500}
MetarErrorStatuses == {404, 500}
\* Exceptions requests.get / requests.post raise instead of returning.
TransportFaults == {"ConnectionError", "Timeout"}

\* The blocks of a response are well formed: a tool_use block has an id, a
\* name and an input with the one property of the declared schema.
TextBlocks == [type : {"text"}, text : Texts]
ToolUseBlocks ==
    [type : {"tool_use"}, id : ToolUseIds, name : ToolNames,
     input : [station : Stations]]
Blocks == TextBlocks \cup ToolUseBlocks

\* Every content list of at most n blocks.
Contents(n) == UNION {[1..k -> Blocks] : k \in 0..n}

\* What requests.post may yield for one call of the model endpoint.
PostOutcomes(n) ==
    [tag : {"return"},
     value : [ok : {TRUE}, status_code : {200},
              json : [stop_reason : StopReasons, content : Contents(n)]]]
    \cup [tag : {"return"}, value : [ok : {FALSE}, status_code : ApiErrorStatuses]]
    \cup [tag : {"raise"}, exc : TransportFaults]

\* What requests.get may yield for one METAR fetch of a station.
GetOutcomes(station) ==
    [tag : {"return"},
     value : [ok : {TRUE}, status_code : {200}, json : [station : {station}]]]
    \cup [tag : {"return"}, value : [ok : {FALSE}, status_code : MetarErrorStatuses]]
    \cup [tag : {"raise"}, exc : TransportFaults]

Return(v) == [tag |-> "return", value |-> v]
Raise(e) == [tag |-> "raise", exc |-> e]

(***************************************************************************)
(* Pure functions of tool_use.py.                                          *)
(***************************************************************************)
\* json.dumps of the dicts the script serializes: {"error": <str>} and the
\* METAR body.
JsonDumps(v) ==
    IF "error" \in DOMAIN v
    THEN "{\"error\": \"" \o v.error \o "\"}"
    ELSE "{\"station\": \"" \o v.station \o "\"}"

\* Mutant of get_weather: a non-success status raises (raise_for_status).
get_weather_RaiseForStatus(station, got) ==
    IF got.tag = "raise" THEN got
    ELSE IF ~got.value.ok THEN Raise("HTTPError")
    ELSE Return(got.value.json)

\* get_weather(station), given what requests.get yielded.
get_weather(station, got) ==
    IF got.tag = "raise" THEN got
    ELSE IF ~got.value.ok
         THEN Return([error |-> "METAR fetch failed: HTTP "
                                  \o ToString(got.value.status_code)])
         ELSE Return(got.value.json)

HANDLERS == {"get_weather"}

\* TRUE iff handle_tool_call(block) reaches the handler call of line 76.
InvokesHandler(block) == block.name \in HANDLERS

\* Mutant of handle_tool_call: no membership test, HANDLERS[name] raises
\* KeyError for an unregistered name.
handle_tool_call_KeyError(block, got) ==
    IF block.name \notin HANDLERS
    THEN Raise("KeyError")
    ELSE LET result == get_weather(block.input.station, got)
         IN  IF result.tag = "raise" THEN result
             ELSE Return([type |-> "tool_result",
                          tool_use_id |-> block.id,
                          content |-> JsonDumps(result.value)])

\* Mutant of handle_tool_call: an {"error": ...} value of the handler is
\* flagged is_error.
handle_tool_call_FlagsErrors(block, got) ==
    IF block.name \notin HANDLERS
    THEN Return([type |-> "tool_result",
                 tool_use_id |-> block.id,
                 content |-> JsonDumps([error |-> "unknown tool: " \o block.name]),
                 is_error |-> TRUE])
    ELSE LET result == get_weather(block.input.station, got)
         IN  IF result.tag = "raise" THEN result
             ELSE IF "error" \in DOMAIN result.value
             THEN Return([type |-> "tool_result",
                          tool_use_id |-> block.id,
                          content |-> JsonDumps(result.value),
                          is_error |-> TRUE])
             ELSE Return([type |-> "tool_result",
                          tool_use_id |-> block.id,
                          content |-> JsonDumps(result.value)])

\* handle_tool_call(block), given what the handler's requests.get yields
\* (got is not consulted for an unregistered name).
handle_tool_call(block, got) ==
    IF block.name \notin HANDLERS
    THEN Return([type |-> "tool_result",
                 tool_use_id |-> block.id,
                 content |-> JsonDumps([error |-> "unknown tool: " \o block.name]),
                 is_error |-> TRUE])
    ELSE LET result == get_weather(block.input.station, got)
         IN  IF result.tag = "raise" THEN result
             ELSE Return([type |-> "tool_result",
                          tool_use_id |-> block.id,
                          content |-> JsonDumps(result.value)])

\* Mutant of call_claude: the error message omits the status code.
call_claude_NoStatus(posted) ==
    IF posted.tag = "raise" THEN posted
    ELSE IF ~posted.value.ok THEN Raise("API error")
    ELSE Return(posted.value.json)

\* call_claude(messages), given what requests.post yielded.
call_claude(posted) ==
    IF posted.tag = "raise" THEN posted
    ELSE IF ~posted.value.ok
         THEN Raise("API error: " \o ToString(posted.value.status_code))
         ELSE Return(posted.value.json)

IsText(b) == b.type = "text"
IsToolUse(b) == b.type = "tool_use"

RECURSIVE Join(_, _)
\* sep.join(strs)
Join(sep, strs) ==
    IF Len(strs) = 0 THEN ""
    ELSE IF Len(strs) = 1 THEN strs[1]
    ELSE strs[1] \o sep \o Join(sep, Tail(strs))

RECURSIVE TextsOf(_)
\* [b["text"] for b in content if b["type"] == "text"]
TextsOf(content) ==
    IF Len(content) = 0 THEN <<>>
    ELSE IF IsText(content[1])
         THEN <<content[1].text>> \o TextsOf(Tail(content))
         ELSE TextsOf(Tail(content))

\* Mutant of FinalText: the texts concatenated with no separator.
FinalText_Concatenated(content) == Join("", TextsOf(content))

\* The value agent() returns on end_turn.
FinalText(content) == Join("\n", TextsOf(content))

\* Mutant of ToolUsesOf: the tool_use blocks in reverse order.
ToolUsesOf_Reversed(content) ==
    LET s == SelectSeq(content, IsToolUse)
    IN  [k \in 1..Len(s) |-> s[Len(s) + 1 - k]]

\* [b for b in content if b["type"] == "tool_use"], the blocks the list
\* comprehension of agent() hands to handle_tool_call, in order.
ToolUsesOf(content) == SelectSeq(content, IsToolUse)

\* Mutant of Branch: without the check of line 95, every stop reason
\* other than end_turn dispatches.
Branch_NoCheck(stop_reason) ==
    IF stop_reason = "end_turn" THEN "return" ELSE "dispatch"

\* Mutant of Branch: the stop reason is not looked at, every response
\* dispatches.
Branch_AlwaysDispatch(stop_reason) == "dispatch"

\* The branch agent() takes on a response (lines 92-98): return the text,
\* raise, or dispatch the tool_use blocks.
Branch(stop_reason) ==
    IF stop_reason = "end_turn" THEN "return"
    ELSE IF stop_reason # "tool_use" THEN "raise"
    ELSE "dispatch"

UnexpectedError(stop_reason) == "unexpected: " \o stop_reason
TurnLimitError(limit) == "exceeded " \o ToString(limit) \o " turns"

(***************************************************************************)
(* State of one invocation of agent(prompt, max_turns).                    *)
(***************************************************************************)
VARIABLES
    prompt,          \* the caller's prompt
    max_turns_given, \* TRUE iff the caller passed max_turns
    max_turns,       \* the turn limit in force
    pc,              \* where the invocation stands
    turn,            \* iterations of the for loop completed
    messages,        \* the conversation
    data,            \* the response of the current turn
    pending,         \* tool_use blocks of the turn not yet dispatched
    tool_results,    \* tool_result blocks of the turn produced so far
    result,          \* the string agent() returned
    error,           \* the message of the exception agent() raised
    model_calls,     \* every call_claude so far: messages sent, outcome of the post
    handler_calls    \* every handler invocation so far: turn, block, outcome

agent_vars ==
    <<prompt, max_turns_given, max_turns, pc, turn, messages, data,
      pending, tool_results, result, error, model_calls, handler_calls>>

(***************************************************************************)
(* State of the two other scripts the properties speak of.  Each script    *)
(* is a process of its own: a specification runs one script and leaves     *)
(* the variables of the others as they are.                                *)
(***************************************************************************)
VARIABLES
    todo_env,        \* todo_app.py: the environment variables that are set
    todo_pc,         \* "start", "exit" or "raised"
    todo_store,      \* the database: pyex_todos, if it exists, and its serial
    todo_sql,        \* the statements passed to sql.query so far
    todo_out,        \* the lines printed so far
    todo_error       \* the exception that ended the script

todo_vars == <<todo_env, todo_pc, todo_store, todo_sql, todo_out, todo_error>>

VARIABLES
    enc_pc,          \* encode.py: the next section of the script
    n,               \* the integer to encode
    binary_str,      \* strings are sequences of one-character strings
    bits,
    padded,
    byte_list,
    b16,
    b32,
    b64

encode_vars == <<enc_pc, n, binary_str, bits, padded, byte_list, b16, b32, b64>>

vars == <<agent_vars, todo_vars, encode_vars>>

\* todo_app.py is not running.
TodoIdle ==
    /\ todo_env = <<>>
    /\ todo_pc = "idle"
    /\ todo_store = [exists |-> FALSE, rows |-> <<>>, serial |-> 0]
    /\ todo_sql = <<>>
    /\ todo_out = <<>>
    /\ todo_error = ""

\* encode.py is not running.
EncodeIdle ==
    /\ enc_pc = "idle"
    /\ n = 0
    /\ binary_str = <<>>
    /\ bits = <<>>
    /\ padded = <<>>
    /\ byte_list = <<>>
    /\ b16 = <<>>
    /\ b32 = <<>>
    /\ b64 = <<>>

NoData == [stop_reason |-> "", content |-> <<>>]

Running == {"start", "awaiting_response", "dispatching_tools"}
Failed == {"transport_failure", "unexpected_stop_reason", "turn_limit_exceeded",
           "call_fault", "handler_fault"}
Terminal == {"done"} \cup Failed

Init ==
    /\ prompt \in Prompts
    /\ max_turns_given \in BOOLEAN
    /\ max_turns \in IF max_turns_given THEN 0..MaxTurnsArg ELSE {DefaultMaxTurns}
    /\ pc = "start"
    /\ turn = 0
    /\ messages = <<>>
    /\ data = NoData
    /\ pending = <<>>
    /\ tool_results = <<>>
    /\ result = ""
    /\ error = ""
    /\ model_calls = <<>>
    /\ handler_calls = <<>>
    /\ TodoIdle
    /\ EncodeIdle

RECURSIVE BlocksReceived(_)
\* Content blocks received so far: those of the assistant messages.
BlocksReceived(msgs) ==
    IF Len(msgs) = 0 THEN 0
    ELSE (IF msgs[1].role = "assistant" THEN Len(msgs[1].content) ELSE 0)
         + BlocksReceived(Tail(msgs))

\* Content blocks the endpoint may still return in this invocation.
BlocksLeft ==
    (IF max_turns_given THEN MaxTotalBlocks ELSE MaxBlocksDefaultRun)
    - BlocksReceived(messages)

\* Mutant of LoopHead: one iteration too many.
LoopHead_OffByOne(t) ==
    IF t <= max_turns
    THEN /\ pc' = "awaiting_response"
         /\ error' = error
    ELSE /\ pc' = "turn_limit_exceeded"
         /\ error' = TurnLimitError(max_turns)

\* The head of `for turn in range(max_turns)` after t iterations: the next
\* iteration, or the raise of line 107 once the range is exhausted.
LoopHead(t) ==
    IF t < max_turns
    THEN /\ pc' = "awaiting_response"
         /\ error' = error
    ELSE /\ pc' = "turn_limit_exceeded"
         /\ error' = TurnLimitError(max_turns)

\* Mutant of FinishTurn: the conversation keeps the prompt and the last
\* turn only.
FinishTurn_Window(content, results) ==
    /\ messages' = <<messages[1],
                     [role |-> "assistant", content |-> content],
                     [role |-> "user", content |-> results]>>
    /\ turn' = turn + 1
    /\ LoopHead(turn + 1)
    /\ data' = NoData
    /\ pending' = <<>>
    /\ tool_results' = <<>>

\* Mutant of FinishTurn: the assistant message keeps the tool_use blocks
\* only.
FinishTurn_ToolUsesOnly(content, results) ==
    /\ messages' = messages \o <<[role |-> "assistant", content |-> ToolUsesOf(content)],
                                 [role |-> "user", content |-> results]>>
    /\ turn' = turn + 1
    /\ LoopHead(turn + 1)
    /\ data' = NoData
    /\ pending' = <<>>
    /\ tool_results' = <<>>

\* Mutant of FinishTurn: nothing is appended when there are no tool
\* results.
FinishTurn_SkipEmpty(content, results) ==
    /\ messages' = IF results = <<>> THEN messages
                   ELSE messages \o <<[role |-> "assistant", content |-> content],
                                      [role |-> "user", content |-> results]>>
    /\ turn' = turn + 1
    /\ LoopHead(turn + 1)
    /\ data' = NoData
    /\ pending' = <<>>
    /\ tool_results' = <<>>

\* Lines 102-105 and the step to the next iteration.
FinishTurn(content, results) ==
    /\ messages' = messages \o <<[role |-> "assistant", content |-> content],
                                 [role |-> "user", content |-> results]>>
    /\ turn' = turn + 1
    /\ LoopHead(turn + 1)
    /\ data' = NoData
    /\ pending' = <<>>
    /\ tool_results' = <<>>

\* The record of one call_claude(messages).
Called(posted) == Append(model_calls, [messages |-> messages, posted |-> posted])

\* The record of one handler invocation (line 76).
Handled(block, got) ==
    Append(handler_calls,
           [turn |-> turn, id |-> block.id, name |-> block.name,
            kwargs |-> block.input, got |-> got,
            outcome |-> get_weather(block.input.station, got)])

\* agent() is entered: line 87 and the first evaluation of the loop head.
Agent ==
    /\ pc = "start"
    /\ messages' = <<[role |-> "user", content |-> prompt]>>
    /\ LoopHead(0)
    /\ UNCHANGED <<todo_vars, encode_vars, prompt, max_turns_given, max_turns, turn, data, pending,
                   tool_results, result, model_calls, handler_calls>>

\* Line 90, call_claude raises: the exception leaves agent().
CallClaudeRaises ==
    /\ pc = "awaiting_response"
    /\ \E posted \in PostOutcomes(0) :
         LET r == call_claude(posted) IN
         /\ r.tag = "raise"
         /\ pc' = IF posted.tag = "raise" THEN "call_fault" ELSE "transport_failure"
         /\ error' = r.exc
         /\ model_calls' = Called(posted)
    /\ UNCHANGED <<todo_vars, encode_vars, prompt, max_turns_given, max_turns, turn, messages, data,
                   pending, tool_results, result, handler_calls>>

\* Lines 90-93: the response ends the turn and agent() returns its text.
EndTurn ==
    /\ pc = "awaiting_response"
    /\ \E posted \in PostOutcomes(BlocksLeft) :
         LET r == call_claude(posted) IN
         /\ r.tag = "return"
         /\ Branch(r.value.stop_reason) = "return"
         /\ data' = r.value
         /\ result' = FinalText(r.value.content)
         /\ pc' = "done"
         /\ model_calls' = Called(posted)
    /\ UNCHANGED <<todo_vars, encode_vars, prompt, max_turns_given, max_turns, turn, messages,
                   pending, tool_results, error, handler_calls>>

\* Lines 90-96: a stop reason that is neither end_turn nor tool_use.
UnexpectedStopReason ==
    /\ pc = "awaiting_response"
    /\ \E posted \in PostOutcomes(BlocksLeft) :
         LET r == call_claude(posted) IN
         /\ r.tag = "return"
         /\ Branch(r.value.stop_reason) = "raise"
         /\ data' = r.value
         /\ error' = UnexpectedError(r.value.stop_reason)
         /\ pc' = "unexpected_stop_reason"
         /\ model_calls' = Called(posted)
    /\ UNCHANGED <<todo_vars, encode_vars, prompt, max_turns_given, max_turns, turn, messages,
                   pending, tool_results, result, handler_calls>>

\* Lines 90-98: a tool_use response; the list comprehension starts.  With
\* no tool_use block in the content it is over at once (lines 102-105).
ToolUse ==
    /\ pc = "awaiting_response"
    /\ \E posted \in PostOutcomes(BlocksLeft) :
         LET r == call_claude(posted) IN
         /\ r.tag = "return"
         /\ Branch(r.value.stop_reason) = "dispatch"
         /\ IF ToolUsesOf(r.value.content) = <<>>
            THEN FinishTurn(r.value.content, <<>>)
            ELSE /\ pc' = "dispatching_tools"
                 /\ data' = r.value
                 /\ pending' = ToolUsesOf(r.value.content)
                 /\ tool_results' = <<>>
                 /\ UNCHANGED <<turn, messages, error>>
         /\ model_calls' = Called(posted)
    /\ UNCHANGED <<todo_vars, encode_vars, prompt, max_turns_given, max_turns, result, handler_calls>>

\* Lines 99 and 62-82: handle_tool_call on the next tool_use block returns
\* a tool_result; after the last block, lines 102-105.
HandleToolCall ==
    /\ pc = "dispatching_tools"
    /\ LET block == Head(pending) IN
       \E got \in GetOutcomes(block.input.station) :
         LET r == handle_tool_call(block, got) IN
         /\ r.tag = "return"
         /\ handler_calls' =
                IF InvokesHandler(block) THEN Handled(block, got) ELSE handler_calls
         /\ IF Len(pending) = 1
            THEN FinishTurn(data.content, Append(tool_results, r.value))
            ELSE /\ pending' = Tail(pending)
                 /\ tool_results' = Append(tool_results, r.value)
                 /\ UNCHANGED <<pc, turn, messages, data, error>>
    /\ UNCHANGED <<todo_vars, encode_vars, prompt, max_turns_given, max_turns, result, model_calls>>

\* Lines 99 and 76: the handler raises and the exception leaves agent().
HandlerRaises ==
    /\ pc = "dispatching_tools"
    /\ LET block == Head(pending) IN
       \E got \in GetOutcomes(block.input.station) :
         LET r == handle_tool_call(block, got) IN
         /\ r.tag = "raise"
         /\ handler_calls' = Handled(block, got)
         /\ error' = r.exc
         /\ pc' = "handler_fault"
    /\ UNCHANGED <<todo_vars, encode_vars, prompt, max_turns_given, max_turns, turn, messages, data,
                   pending, tool_results, result, model_calls>>

Next ==
    \/ Agent
    \/ CallClaudeRaises
    \/ EndTurn
    \/ UnexpectedStopReason
    \/ ToolUse
    \/ HandleToolCall
    \/ HandlerRaises

Spec == Init /\ [][Next]_vars

\* Every call of the endpoint and of a handler comes back, so the
\* synchronous script always takes its next step.
FairSpec == Spec /\ WF_vars(Next)

\* tool_use.py is not running.
AgentIdle ==
    /\ prompt = ""
    /\ max_turns_given = FALSE
    /\ max_turns = DefaultMaxTurns
    /\ pc = "idle"
    /\ turn = 0
    /\ messages = <<>>
    /\ data = NoData
    /\ pending = <<>>
    /\ tool_results = <<>>
    /\ result = ""
    /\ error = ""
    /\ model_calls = <<>>
    /\ handler_calls = <<>>

(***************************************************************************)
(* lib/mix/tasks/todo_app.py: one command of the todo CLI.  The sql        *)
(* module is the database: sql.query runs one statement on the table       *)
(* pyex_todos and returns its rows, or raises.  A row is modelled by its   *)
(* id, task and done columns.                                              *)
(***************************************************************************)
TodoCmds == {"init", "add", "done", "delete", "list", "help"}
TodoArgs == {"", "1", "3", "eggs"}
TodoTasks == {"milk"}

NoEnv == [k \in {} |-> ""]
\* The environments: TODO_CMD and TODO_ARG are each set or not.
TodoEnvs ==
    {c @@ a : c \in {NoEnv} \cup {("TODO_CMD" :> v) : v \in TodoCmds},
              a \in {NoEnv} \cup {("TODO_ARG" :> v) : v \in TodoArgs}}

\* os.environ.get(key, default)
EnvironGet(env, key, default) == IF key \in DOMAIN env THEN env[key] ELSE default

TodoRows == [id : 1..MaxTodoId, task : TodoTasks, done : BOOLEAN]
\* The states of the database before the command: no table, or a table
\* whose rows have distinct ids, kept here in the order of their ids.
TodoStores ==
    {[exists |-> FALSE, rows |-> <<>>, serial |-> 0]}
    \cup {[exists |-> TRUE, rows |-> r, serial |-> MaxTodoId] :
            r \in {q \in UNION {[1..k -> TodoRows] : k \in 0..MaxTodoId} :
                     \A i \in DOMAIN q : \A j \in DOMAIN q : i < j => q[i].id < q[j].id}}

\* int(arg) for the arguments of TodoArgs.
IntOf(arg) ==
    CASE arg = "1" -> Return(1)
      [] arg = "2" -> Return(2)
      [] arg = "3" -> Return(3)
      [] OTHER -> Raise("ValueError")

SqlCreate == "CREATE TABLE IF NOT EXISTS pyex_todos (id serial PRIMARY KEY, task text NOT NULL, done boolean DEFAULT false, created_at timestamp DEFAULT now())"
SqlInsert == "INSERT INTO pyex_todos (task) VALUES ($1)"
SqlUpdate == "UPDATE pyex_todos SET done = true WHERE id = $1 RETURNING task"
SqlDelete == "DELETE FROM pyex_todos WHERE id = $1 RETURNING task"
SqlSelect == "SELECT id, task, done FROM pyex_todos ORDER BY id"

\* The tasks of the rows of the given id, as RETURNING task yields them.
TasksOfId(rows, id) ==
    LET HasId(r) == r.id = id
        hit == SelectSeq(rows, HasId)
    IN  [k \in 1..Len(hit) |-> [task |-> hit[k].task]]

\* sql.query(stmt, params) on a database in state store: what the call
\* yields and the state it leaves.
SqlQuery(store, stmt, params) ==
    IF stmt = SqlCreate
    THEN [outcome |-> Return(<<>>), store |-> [store EXCEPT !.exists = TRUE]]
    ELSE IF ~store.exists
    THEN [outcome |-> Raise("UndefinedTable"), store |-> store]
    ELSE IF stmt = SqlInsert
    THEN [outcome |-> Return(<<>>),
          store |-> [store EXCEPT
                        !.rows = Append(@, [id |-> store.serial + 1,
                                            task |-> params[1], done |-> FALSE]),
                        !.serial = @ + 1]]
    ELSE IF stmt = SqlUpdate
    THEN [outcome |-> Return(TasksOfId(store.rows, params[1])),
          store |-> [store EXCEPT
                        !.rows = [k \in DOMAIN @ |->
                                     IF @[k].id = params[1]
                                     THEN [@[k] EXCEPT !.done = TRUE] ELSE @[k]]]]
    ELSE IF stmt = SqlDelete
    THEN [outcome |-> Return(TasksOfId(store.rows, params[1])),
          store |-> [store EXCEPT
                        !.rows = LET Other(r) == r.id # params[1]
                                 IN  SelectSeq(@, Other)]]
    ELSE [outcome |-> Return(store.rows), store |-> store]

todo_cmd == EnvironGet(todo_env, "TODO_CMD", "list")
todo_arg == EnvironGet(todo_env, "TODO_ARG", "")

\* Mutant of EmptyArg: add does not check its argument.
EmptyArg_Unchecked(arg) == FALSE

\* Line 19: arg == ""
EmptyArg(arg) == arg = ""

TodoUsageText ==
    <<"Usage:", "  mix todo init", "  mix todo add <task>", "  mix todo list",
      "  mix todo done <id>", "  mix todo delete <id>">>

\* Line 47-48: the line printed for one row.
TodoLine(row) ==
    "[" \o (IF row.done THEN "x" ELSE " ") \o "] " \o ToString(row.id)
        \o ". " \o row.task

\* rows = sql.query(stmt, params), where the call returns.
TodoQueryRows(stmt, params) ==
    LET q == SqlQuery(todo_store, stmt, params) IN
    IF q.outcome.tag = "return" THEN q.outcome.value ELSE <<>>

\* The script issues one statement and goes on to print the given lines, or
\* ends with the exception of sql.query.
TodoQuery(stmt, params, printed) ==
    LET q == SqlQuery(todo_store, stmt, params) IN
    /\ todo_sql' = Append(todo_sql, [stmt |-> stmt, params |-> params])
    /\ todo_store' = q.store
    /\ IF q.outcome.tag = "raise"
       THEN /\ todo_pc' = "raised"
            /\ todo_error' = q.outcome.exc
            /\ todo_out' = todo_out
       ELSE /\ todo_pc' = "exit"
            /\ todo_error' = todo_error
            /\ todo_out' = todo_out \o printed

\* The script ends with an exception before any statement.
TodoRaises(exc) ==
    /\ todo_pc' = "raised"
    /\ todo_error' = exc
    /\ UNCHANGED <<todo_store, todo_sql, todo_out>>

\* The script only prints.
TodoPrints(lines) ==
    /\ todo_pc' = "exit"
    /\ todo_out' = todo_out \o lines
    /\ UNCHANGED <<todo_store, todo_sql, todo_error>>

TodoInit ==
    /\ AgentIdle
    /\ EncodeIdle
    /\ todo_env \in TodoEnvs
    /\ todo_pc = "start"
    /\ todo_store \in TodoStores
    /\ todo_sql = <<>>
    /\ todo_out = <<>>
    /\ todo_error = ""

\* Lines 7-16
TodoCreate ==
    /\ todo_pc = "start"
    /\ todo_cmd = "init"
    /\ TodoQuery(SqlCreate, <<>>, <<"Table pyex_todos created.">>)
    /\ UNCHANGED <<agent_vars, encode_vars, todo_env>>

\* Lines 18-23
TodoAdd ==
    /\ todo_pc = "start"
    /\ todo_cmd = "add"
    /\ IF EmptyArg(todo_arg)
       THEN TodoPrints(<<"Usage: mix todo add <task>">>)
       ELSE TodoQuery(SqlInsert, <<todo_arg>>, <<"Added: " \o todo_arg>>)
    /\ UNCHANGED <<agent_vars, encode_vars, todo_env>>

\* Lines 25-32
TodoDone ==
    /\ todo_pc = "start"
    /\ todo_cmd = "done"
    /\ IF IntOf(todo_arg).tag = "raise"
       THEN TodoRaises(IntOf(todo_arg).exc)
       ELSE LET rows == TodoQueryRows(SqlUpdate, <<IntOf(todo_arg).value>>)
            IN  TodoQuery(SqlUpdate, <<IntOf(todo_arg).value>>,
                          IF Len(rows) > 0 THEN <<"Done: " \o rows[1].task>>
                          ELSE <<"No todo with id " \o todo_arg>>)
    /\ UNCHANGED <<agent_vars, encode_vars, todo_env>>

\* Lines 34-39
TodoDelete ==
    /\ todo_pc = "start"
    /\ todo_cmd = "delete"
    /\ IF IntOf(todo_arg).tag = "raise"
       THEN TodoRaises(IntOf(todo_arg).exc)
       ELSE LET rows == TodoQueryRows(SqlDelete, <<IntOf(todo_arg).value>>)
            IN  TodoQuery(SqlDelete, <<IntOf(todo_arg).value>>,
                          IF Len(rows) > 0 THEN <<"Deleted: " \o rows[1].task>>
                          ELSE <<"No todo with id " \o todo_arg>>)
    /\ UNCHANGED <<agent_vars, encode_vars, todo_env>>

\* Lines 41-48
TodoList ==
    /\ todo_pc = "start"
    /\ todo_cmd = "list"
    /\ LET rows == TodoQueryRows(SqlSelect, <<>>)
       IN  TodoQuery(SqlSelect, <<>>,
                     IF Len(rows) = 0
                     THEN <<"No todos yet. Add one with: mix todo add <task>">>
                     ELSE [k \in 1..Len(rows) |-> TodoLine(rows[k])])
    /\ UNCHANGED <<agent_vars, encode_vars, todo_env>>

\* Lines 50-56
TodoUsage ==
    /\ todo_pc = "start"
    /\ todo_cmd \notin {"init", "add", "done", "delete", "list"}
    /\ TodoPrints(TodoUsageText)
    /\ UNCHANGED <<agent_vars, encode_vars, todo_env>>

TodoNext ==
    \/ TodoCreate
    \/ TodoAdd
    \/ TodoDone
    \/ TodoDelete
    \/ TodoList
    \/ TodoUsage

TodoSpec == TodoInit /\ [][TodoNext]_vars

(***************************************************************************)
(* scripts/encode.py: the bytes of an integer and their Base16, Base32     *)
(* and Base64 text, computed bit by bit.  A str is modelled as the         *)
(* sequence of its characters, s[i] of Python being s[i + 1] here.  The    *)
(* script fixes n = 5412072012, which TLC's integers cannot hold: the      *)
(* model runs the same statements on the n of EncodeInputs.                *)
(***************************************************************************)
LargeNs == {65535, 65536, 16777215, 16777216, 2147483647}
EncodeInputs == (1..MaxN) \cup LargeNs

\* s[i:j]
Slice(s, i, j) == SubSeq(s, i + 1, IF j < Len(s) THEN j ELSE Len(s))

\* s.rjust(width, fill)
RJust(s, width, fill) ==
    IF Len(s) >= width THEN s ELSE [k \in 1..(width - Len(s)) |-> fill] \o s

RECURSIVE BinDigits(_)
\* The binary digits of k > 0, most significant first.
BinDigits(k) ==
    IF k < 2 THEN <<IF k = 1 THEN "1" ELSE "0">>
    ELSE Append(BinDigits(k \div 2), IF k % 2 = 1 THEN "1" ELSE "0")

\* bin(k)
Bin(k) == <<"0", "b">> \o BinDigits(k)

\* int(b) of a binary digit
IntOfBit(b) == IF b = "1" THEN 1 ELSE 0

RECURSIVE ChunkValue(_, _)
\* The loop `for b in chunk: val = val * 2 + int(b)`, started with val.
ChunkValue(val, chunk) ==
    IF chunk = <<>> THEN val
    ELSE ChunkValue(val * 2 + IntOfBit(Head(chunk)), Tail(chunk))

\* [f(i) for i in range(0, length, step)]: the number of iterations.
RangeCount(length, step) == (length + step - 1) \div step

\* The values of the chunks all_bits[i : i + width], i in range(0, len, width).
ChunkValues(all_bits, width) ==
    [k \in 1..RangeCount(Len(all_bits), width) |->
        ChunkValue(0, Slice(all_bits, width * (k - 1), width * k))]

RECURSIVE PadTo(_, _, _)
\* while len(s) % m != 0: s = s + fill
PadTo(s, m, fill) == IF Len(s) % m = 0 THEN s ELSE PadTo(Append(s, fill), m, fill)

\* Mutant of ByteLength: one byte more than the bits divided by eight.
ByteLength_Extra(nbits) == (nbits \div 8) + 1

\* Line 9: byte_length = (len(bits) + 7) // 8
ByteLength(nbits) == (nbits + 7) \div 8

hex_chars == <<"0", "1", "2", "3", "4", "5", "6", "7", "8", "9",
               "A", "B", "C", "D", "E", "F">>
b32_alphabet ==
    <<"A", "B", "C", "D", "E", "F", "G", "H", "I", "J", "K", "L", "M",
      "N", "O", "P", "Q", "R", "S", "T", "U", "V", "W", "X", "Y", "Z",
      "2", "3", "4", "5", "6", "7">>
b64_alphabet ==
    <<"A", "B", "C", "D", "E", "F", "G", "H", "I", "J", "K", "L", "M",
      "N", "O", "P", "Q", "R", "S", "T", "U", "V", "W", "X", "Y", "Z",
      "a", "b", "c", "d", "e", "f", "g", "h", "i", "j", "k", "l", "m",
      "n", "o", "p", "q", "r", "s", "t", "u", "v", "w", "x", "y", "z",
      "0", "1", "2", "3", "4", "5", "6", "7", "8", "9", "+", "/">>

RECURSIVE Base16Of(_)
\* Lines 25-26: two hex characters per byte.
Base16Of(bytes) ==
    IF bytes = <<>> THEN <<>>
    ELSE <<hex_chars[(Head(bytes) \div 16) + 1], hex_chars[(Head(bytes) % 16) + 1]>>
         \o Base16Of(Tail(bytes))

EncodeInit ==
    /\ AgentIdle
    /\ TodoIdle
    /\ enc_pc = "start"
    /\ n \in EncodeInputs
    /\ binary_str = <<>>
    /\ bits = <<>>
    /\ padded = <<>>
    /\ byte_list = <<>>
    /\ b16 = <<>>
    /\ b32 = <<>>
    /\ b64 = <<>>

\* Lines 1-11: the bits of n, left-padded to whole bytes.
EncodeBits ==
    /\ enc_pc = "start"
    /\ binary_str' = Bin(n)
    /\ bits' = Slice(Bin(n), 2, Len(Bin(n)))
    /\ padded' = RJust(bits', ByteLength(Len(bits')) * 8, "0")
    /\ enc_pc' = "bytes"
    /\ UNCHANGED <<agent_vars, todo_vars, n, byte_list, b16, b32, b64>>

\* Lines 13-21: one byte per chunk of eight bits.
EncodeBytes ==
    /\ enc_pc = "bytes"
    /\ byte_list' = ChunkValues(padded, 8)
    /\ enc_pc' = "base16"
    /\ UNCHANGED <<agent_vars, todo_vars, n, binary_str, bits, padded, b16, b32, b64>>

\* Lines 23-27
EncodeBase16 ==
    /\ enc_pc = "base16"
    /\ b16' = Base16Of(byte_list)
    /\ enc_pc' = "base32"
    /\ UNCHANGED <<agent_vars, todo_vars, n, binary_str, bits, padded, byte_list,
                   b32, b64>>

\* Lines 29-44
EncodeBase32 ==
    /\ enc_pc = "base32"
    /\ LET values == ChunkValues(PadTo(padded, 5, "0"), 5)
       IN  b32' = PadTo([k \in DOMAIN values |-> b32_alphabet[values[k] + 1]], 8, "=")
    /\ enc_pc' = "base64"
    /\ UNCHANGED <<agent_vars, todo_vars, n, binary_str, bits, padded, byte_list,
                   b16, b64>>

\* Lines 46-61
EncodeBase64 ==
    /\ enc_pc = "base64"
    /\ LET values == ChunkValues(PadTo(padded, 6, "0"), 6)
       IN  b64' = PadTo([k \in DOMAIN values |-> b64_alphabet[values[k] + 1]], 4, "=")
    /\ enc_pc' = "done"
    /\ UNCHANGED <<agent_vars, todo_vars, n, binary_str, bits, padded, byte_list,
                   b16, b32>>

EncodeNext ==
    \/ EncodeBits
    \/ EncodeBytes
    \/ EncodeBase16
    \/ EncodeBase32
    \/ EncodeBase64

EncodeSpec == EncodeInit /\ [][EncodeNext]_vars

(***************************************************************************)
(* Vocabulary of the properties: the trace of calls read independently of  *)
(* the operators above.                                                    *)
(***************************************************************************)
NumCalls == Len(model_calls)
\* The i-th model call came back with a success status.
Responded(i) ==
    /\ model_calls[i].posted.tag = "return"
    /\ model_calls[i].posted.value.ok
Response(i) == model_calls[i].posted.value.json
StopReasonOf(i) == IF Responded(i) THEN Response(i).stop_reason ELSE ""
\* The i-th model call came back with a non-success status.
Rejected(i) ==
    /\ model_calls[i].posted.tag = "return"
    /\ ~model_calls[i].posted.value.ok
\* The turn of the i-th model call is over and the loop went on.
TurnOver(i) == i < NumCalls \/ pc \in {"awaiting_response", "turn_limit_exceeded"}
\* Handler invocations made during the turn of the i-th model call.
HandlerCallsOf(i) == {k \in DOMAIN handler_calls : handler_calls[k].turn = i - 1}

RECURSIVE ToolUseIdsFrom(_, _)
\* The ids of the tool_use blocks content[k..], in order.
ToolUseIdsFrom(content, k) ==
    IF k > Len(content) THEN <<>>
    ELSE (IF content[k].type = "tool_use" THEN <<content[k].id>> ELSE <<>>)
         \o ToolUseIdsFrom(content, k + 1)

RECURSIVE JoinedTextUpTo(_, _)
\* The texts of the text blocks content[1..k], a newline between two.
JoinedTextUpTo(content, k) ==
    IF k = 0 THEN ""
    ELSE IF content[k].type # "text" THEN JoinedTextUpTo(content, k - 1)
    ELSE IF \E j \in 1..(k - 1) : content[j].type = "text"
         THEN JoinedTextUpTo(content, k - 1) \o "\n" \o content[k].text
         ELSE content[k].text

\* C1: after every tool_use turn the user message that follows the
\* assistant message holds exactly one tool_result per tool_use block of the
\* response, in the order of the tool_use blocks and with their ids, and
\* nothing else.
C1_ResultsAnswerToolUses ==
    \A i \in 1..NumCalls :
        (StopReasonOf(i) = "tool_use" /\ TurnOver(i)) =>
            LET ids == ToolUseIdsFrom(Response(i).content, 1) IN
            /\ Len(messages) >= 2 * i + 1
            /\ messages[2 * i].role = "assistant"
            /\ messages[2 * i + 1].role = "user"
            /\ Len(messages[2 * i + 1].content) = Len(ids)
            /\ \A k \in 1..Len(ids) :
                   /\ messages[2 * i + 1].content[k].type = "tool_result"
                   /\ messages[2 * i + 1].content[k].tool_use_id = ids[k]

\* C1 witness: a finished turn whose response had two tool_use blocks with
\* different ids, one of a registered and one of an unregistered tool.
C1_Witness ==
    \E i \in 1..NumCalls :
        /\ StopReasonOf(i) = "tool_use"
        /\ TurnOver(i)
        /\ ToolUseIdsFrom(Response(i).content, 1) = <<"toolu_2", "toolu_1">>
        /\ Response(i).content[1].name # Response(i).content[2].name

\* C2: a response with stop_reason end_turn is the last one, and agent()
\* returns the texts of its text blocks, in order, joined by one newline;
\* other blocks and earlier turns add nothing.
C2_EndTurnReturnsJoinedText ==
    \A i \in 1..NumCalls :
        StopReasonOf(i) = "end_turn" =>
            /\ i = NumCalls
            /\ pc = "done"
            /\ error = ""
            /\ result = JoinedTextUpTo(Response(i).content, Len(Response(i).content))
            /\ (Response(i).content = <<[type |-> "text", text |-> "A"],
                                        [type |-> "text", text |-> "B"]>>
                    => result = "A\nB")

\* C2 witness: on a later turn, text blocks A and B.
C2_Witness ==
    /\ pc = "done"
    /\ NumCalls >= 2
    /\ Len(data.content) = 2
    /\ result = "A\nB"

Last(s) == s[Len(s)]
\* a is a prefix of b.
IsPrefix(a, b) == Len(a) <= Len(b) /\ \A k \in 1..Len(a) : a[k] = b[k]
\* The tool_result a dispatch step has just produced.
Produced ==
    IF pc' = "dispatching_tools" THEN Last(tool_results') ELSE Last(Last(messages').content)
\* What a dispatch step that returned a tool_result does with it: the next
\* block's turn, or, after the last block, the two messages and the next
\* model call (or the turn limit).
LoopGoesOn ==
    /\ pc' \in {"dispatching_tools", "awaiting_response", "turn_limit_exceeded"}
    /\ Len(pending) > 1 =>
           /\ pc' = "dispatching_tools"
           /\ pending' = Tail(pending)
           /\ tool_results' = Append(tool_results, Produced)
           /\ messages' = messages
    /\ Len(pending) = 1 =>
           /\ pc' = IF turn + 1 < max_turns THEN "awaiting_response"
                    ELSE "turn_limit_exceeded"
           /\ Len(messages') = Len(messages) + 2
           /\ IsPrefix(messages, messages')
           /\ Last(messages') = [role |-> "user",
                                 content |-> Append(tool_results, Produced)]

\* C3: if every model call returns stop_reason tool_use, agent() makes
\* exactly max_turns model calls and then fails with the turn-limit error
\* carrying max_turns; it makes no further call and returns no string.
C3_AlwaysToolUseHitsTurnLimit ==
    (\A i \in 1..NumCalls : StopReasonOf(i) = "tool_use") =>
        /\ NumCalls <= max_turns
        /\ pc # "done"
        /\ result = ""
        /\ pc \in Terminal =>
               /\ pc = "turn_limit_exceeded"
               /\ NumCalls = max_turns
               /\ error = "exceeded " \o ToString(max_turns) \o " turns"

\* C4: dispatching a tool_use block whose name is not in HANDLERS invokes
\* no handler and raises nothing: it yields a tool_result with is_error true,
\* the block's id and the unknown-tool payload, and the loop goes on.
C4_UnknownToolRecovered ==
    [][(pc = "dispatching_tools" /\ Head(pending).name \notin HANDLERS) =>
           /\ handler_calls' = handler_calls
           /\ LoopGoesOn
           /\ Produced = [type |-> "tool_result",
                          tool_use_id |-> Head(pending).id,
                          content |-> "{\"error\": \"unknown tool: "
                                          \o Head(pending).name \o "\"}",
                          is_error |-> TRUE]]_vars

\* C4 witness: an error-flagged tool_result is in the conversation and a
\* later model call was made with it.
C4_Witness ==
    \E i \in 1..(NumCalls - 1) :
        \E k \in DOMAIN messages[2 * i + 1].content :
            LET r == messages[2 * i + 1].content[k] IN
            /\ "is_error" \in DOMAIN r
            /\ r.is_error
            /\ r.content = "{\"error\": \"unknown tool: get_time\"}"
            /\ IsPrefix(messages, model_calls[i + 1].messages)

\* C5: a non-success status of the model endpoint at any turn ends the
\* invocation at once with the transport error carrying the status: it is the
\* last model call, no handler runs in that turn, the conversation is not
\* extended and no string is returned.
C5_TransportFailureIsFatal ==
    \A i \in 1..NumCalls :
        Rejected(i) =>
            /\ i = NumCalls
            /\ pc = "transport_failure"
            /\ error = "API error: " \o ToString(model_calls[i].posted.value.status_code)
            /\ result = ""
            /\ HandlerCallsOf(i) = {}
            /\ messages = model_calls[i].messages

\* C5 witness: status 500 on a later turn, after a handler ran, with turns
\* to spare.
C5_Witness ==
    /\ pc = "transport_failure"
    /\ error = "API error: 500"
    /\ NumCalls >= 2
    /\ NumCalls < max_turns
    /\ handler_calls # <<>>

\* C6: when the METAR fetch of get_weather comes back with a non-success
\* status S, the tool_result carries the block's id and the payload
\* {"error": "METAR fetch failed: HTTP S"}, and the loop goes on.
C6_MetarFailureBecomesResult ==
    [][(/\ pc = "dispatching_tools"
        /\ Len(handler_calls') = Len(handler_calls) + 1
        /\ Last(handler_calls').got.tag = "return"
        /\ ~Last(handler_calls').got.value.ok) =>
           LET S == Last(handler_calls').got.value.status_code IN
           /\ Last(handler_calls').id = Head(pending).id
           /\ LoopGoesOn
           /\ Produced.type = "tool_result"
           /\ Produced.tool_use_id = Head(pending).id
           /\ Produced.content =
                  "{\"error\": \"METAR fetch failed: HTTP " \o ToString(S) \o "\"}"
           /\ S = 500 =>
                  Produced.content = "{\"error\": \"METAR fetch failed: HTTP 500\"}"]_vars

\* C6 witness: a fetch failed with HTTP 500, its result is in the
\* conversation and the next model call was made with it.
C6_Witness ==
    \E k \in DOMAIN handler_calls :
        LET i == handler_calls[k].turn + 1 IN
        /\ handler_calls[k].got.tag = "return"
        /\ handler_calls[k].got.value.status_code = 500
        /\ i < NumCalls
        /\ \E m \in DOMAIN model_calls[i + 1].messages[2 * i + 1].content :
               LET r == model_calls[i + 1].messages[2 * i + 1].content[m] IN
               /\ r.tool_use_id = handler_calls[k].id
               /\ r.content = "{\"error\": \"METAR fetch failed: HTTP 500\"}"

\* C7: every failure of a handler's outbound call, a non-success status or
\* a raised transport fault, becomes an {"error": ...} result of the handler,
\* and no tool dispatch aborts the invocation.
C7_HandlerFailuresBecomeResults ==
    /\ pc # "handler_fault"
    /\ \A k \in DOMAIN handler_calls :
           (handler_calls[k].got.tag = "raise" \/ ~handler_calls[k].got.value.ok) =>
               /\ handler_calls[k].outcome.tag = "return"
               /\ "error" \in DOMAIN handler_calls[k].outcome.value

\* C8: a stop reason that is neither end_turn nor tool_use ends the
\* invocation with the unexpected-stop-reason error carrying the value: it is
\* the last model call, no handler runs in that turn even if the content has
\* tool_use blocks, and the conversation is not extended.
C8_UnexpectedStopReasonIsFatal ==
    \A i \in 1..NumCalls :
        (Responded(i) /\ StopReasonOf(i) \notin {"end_turn", "tool_use"}) =>
            /\ i = NumCalls
            /\ pc = "unexpected_stop_reason"
            /\ error = "unexpected: " \o StopReasonOf(i)
            /\ result = ""
            /\ HandlerCallsOf(i) = {}
            /\ tool_results = <<>>
            /\ messages = model_calls[i].messages

\* C8 witness: max_tokens on a later turn, with a get_weather tool_use
\* block in the content.
C8_Witness ==
    /\ pc = "unexpected_stop_reason"
    /\ error = "unexpected: max_tokens"
    /\ NumCalls >= 2
    /\ \E k \in DOMAIN data.content :
           /\ data.content[k].type = "tool_use"
           /\ data.content[k].name = "get_weather"

\* C9: the message list of every model call is a prefix of the message
\* list of every later model call and of the current conversation, and its
\* first message is the user message with the caller's prompt.
C9_ConversationAppendOnly ==
    /\ pc # "start" => messages[1] = [role |-> "user", content |-> prompt]
    /\ \A i \in 1..NumCalls :
           /\ model_calls[i].messages[1] = [role |-> "user", content |-> prompt]
           /\ IsPrefix(model_calls[i].messages, messages)
           /\ \A j \in i..NumCalls :
                  IsPrefix(model_calls[i].messages, model_calls[j].messages)

\* C9 witness: a third model call, sent after a turn that produced a tool
\* result.
C9_Witness ==
    /\ NumCalls >= 3
    /\ Len(model_calls[3].messages) = 5
    /\ \E k \in {3, 5} : model_calls[3].messages[k].content # <<>>

\* C10: every invocation ends, after at most max_turns model calls (10
\* when max_turns is not passed), in exactly one outcome, a returned string
\* or a raised error, and takes no step after it; a call that raises instead
\* of returning is outside the claim's assumption and ends the invocation too.
C10_Terminates ==
    /\ <>(\/ pc \in {"done", "transport_failure", "unexpected_stop_reason",
                     "turn_limit_exceeded"}
          \/ pc \in {"call_fault", "handler_fault"})
    /\ [](/\ NumCalls <= max_turns
          /\ ~max_turns_given => max_turns = 10
          /\ pc = "done" => error = ""
          /\ pc \in {"transport_failure", "unexpected_stop_reason",
                     "turn_limit_exceeded"} => (result = "" /\ error # "")
          /\ pc \in {"start", "awaiting_response", "dispatching_tools"} =>
                 (result = "" /\ error = ""))
    /\ [][(pc \in {"start", "awaiting_response", "dispatching_tools"})]_vars

\* C10 witness: an invocation without max_turns fails with the turn limit
\* after its tenth model call.
C10_Witness ==
    /\ ~max_turns_given
    /\ pc = "turn_limit_exceeded"
    /\ NumCalls = 10

RECURSIVE RegisteredIdsFrom(_, _)
\* The ids of the tool_use blocks content[k..] that name a registered
\* tool, in order.
RegisteredIdsFrom(content, k) ==
    IF k > Len(content) THEN <<>>
    ELSE (IF content[k].type = "tool_use" /\ content[k].name \in HANDLERS
          THEN <<content[k].id>> ELSE <<>>)
         \o RegisteredIdsFrom(content, k + 1)

\* The ids of the blocks whose handler ran during the turn of the i-th
\* model call, in the order of the invocations.
HandledIdsOf(i) ==
    LET InTurn(e) == e.turn = i - 1
        s == SelectSeq(handler_calls, InTurn)
    IN  [k \in 1..Len(s) |-> s[k].id]

\* C11: the conversation grows only at the end of a tool_use turn, by
\* exactly two messages: the assistant message with the raw content of the
\* response, then the user message with the tool_result list; this happens
\* only once every tool_use block of the turn has been dispatched.
C11_TwoMessagesAfterDispatch ==
    [][/\ pc' = "dispatching_tools" => messages' = messages
       /\ (pc # "start" /\ Len(messages') # Len(messages)) =>
              LET len == Len(messages)
                  resp == Last(model_calls').posted.value.json
              IN  /\ pc' \in {"awaiting_response", "turn_limit_exceeded"}
                  /\ resp.stop_reason = "tool_use"
                  /\ Len(messages') = len + 2
                  /\ IsPrefix(messages, messages')
                  /\ messages'[len + 1] = [role |-> "assistant", content |-> resp.content]
                  /\ messages'[len + 2].role = "user"
                  /\ Len(messages'[len + 2].content)
                         = Len(ToolUseIdsFrom(resp.content, 1))
                  /\ \A k \in DOMAIN messages'[len + 2].content :
                         messages'[len + 2].content[k].type = "tool_result"
                  /\ pending' = <<>>]_vars

\* C11 witness: a text block and a tool_use block were appended as the
\* assistant message, followed by the user message with one tool_result.
C11_Witness ==
    /\ Len(messages) >= 3
    /\ Len(messages[2].content) = 2
    /\ messages[2].content[1].type = "text"
    /\ messages[2].content[2].type = "tool_use"
    /\ Len(messages[3].content) = 1

\* C12: handlers run one after the other in the order of the tool_use
\* blocks of the response, and a model call is made only after all the
\* handlers of the turns before it have run.
C12_Sequential ==
    /\ \A k \in DOMAIN handler_calls :
           /\ handler_calls[k].turn < NumCalls
           /\ k > 1 => handler_calls[k - 1].turn <= handler_calls[k].turn
    /\ \A i \in 1..NumCalls :
           LET registered == IF StopReasonOf(i) = "tool_use"
                             THEN RegisteredIdsFrom(Response(i).content, 1)
                             ELSE <<>>
           IN  /\ IsPrefix(HandledIdsOf(i), registered)
               /\ TurnOver(i) => HandledIdsOf(i) = registered
               /\ pc = "dispatching_tools" /\ i = NumCalls =>
                      Len(tool_results) + Len(pending)
                          = Len(ToolUseIdsFrom(Response(i).content, 1))

\* C12 witness: two get_weather blocks were handled in the order of the
\* response and the next model call was made after them.
C12_Witness ==
    /\ NumCalls >= 2
    /\ RegisteredIdsFrom(Response(1).content, 1) = <<"toolu_2", "toolu_1">>
    /\ HandledIdsOf(1) = <<"toolu_2", "toolu_1">>

\* C13: dispatching a tool_use block of a registered tool invokes its
\* handler exactly once with the block's input as keyword arguments; the
\* tool_result has the block's id, the JSON text of what the handler returned
\* and no is_error key, also when the handler returned an {"error": ...}.
C13_RegisteredToolResult ==
    [][(pc = "dispatching_tools" /\ Head(pending).name \in HANDLERS) =>
           /\ Len(handler_calls') = Len(handler_calls) + 1
           /\ IsPrefix(handler_calls, handler_calls')
           /\ Last(handler_calls').name = Head(pending).name
           /\ Last(handler_calls').kwargs = Head(pending).input
           /\ Last(handler_calls').got.tag = "return" =>
                  LET got == Last(handler_calls').got.value IN
                  /\ pc' # "handler_fault"
                  /\ "is_error" \notin DOMAIN Produced
                  /\ Produced =
                         [type |-> "tool_result",
                          tool_use_id |-> Head(pending).id,
                          content |->
                              IF got.ok
                              THEN "{\"station\": \"" \o got.json.station \o "\"}"
                              ELSE "{\"error\": \"METAR fetch failed: HTTP "
                                       \o ToString(got.status_code) \o "\"}"]]_vars

\* C13 witness: a turn answered one get_weather block with the METAR body
\* and another with an {"error": ...} payload, neither flagged.
C13_Witness ==
    /\ Len(messages) >= 3
    /\ Len(messages[3].content) = 2
    /\ messages[3].content[1] =
           [type |-> "tool_result", tool_use_id |-> "toolu_1",
            content |-> "{\"station\": \"KJFK\"}"]
    /\ messages[3].content[2] =
           [type |-> "tool_result", tool_use_id |-> "toolu_2",
            content |-> "{\"error\": \"METAR fetch failed: HTTP 404\"}"]

\* C14: the turn-limit error is raised if and only if max_turns model
\* calls were made and each returned stop_reason tool_use; end_turn on the
\* last allowed call still returns; with max_turns = 0 the turn-limit error
\* is raised with no model call and no dispatch.
C14_TurnLimitIffAllToolUse ==
    /\ pc \in Terminal =>
           (pc = "turn_limit_exceeded"
               <=> /\ NumCalls = max_turns
                   /\ \A i \in 1..NumCalls : StopReasonOf(i) = "tool_use")
    /\ (NumCalls > 0 /\ NumCalls = max_turns /\ StopReasonOf(NumCalls) = "end_turn")
           => pc = "done"
    /\ (max_turns = 0 /\ pc # "start") =>
           /\ pc = "turn_limit_exceeded"
           /\ error = "exceeded 0 turns"
           /\ NumCalls = 0
           /\ handler_calls = <<>>

\* C15: the i-th model call (the first is i = 1) sends 2i - 1 messages
\* with roles user, assistant, user, ...; every assistant message is followed
\* by a user message of tool_result blocks, which is the empty list when the
\* response had no tool_use block.
C15_AlternatingRoles ==
    /\ \A i \in 1..NumCalls :
           /\ Len(model_calls[i].messages) = 2 * i - 1
           /\ \A k \in DOMAIN model_calls[i].messages :
                  model_calls[i].messages[k].role
                      = IF k % 2 = 1 THEN "user" ELSE "assistant"
    /\ \A k \in DOMAIN messages :
           /\ messages[k].role = IF k % 2 = 1 THEN "user" ELSE "assistant"
           /\ k % 2 = 0 =>
                  /\ k + 1 <= Len(messages)
                  /\ \A m \in DOMAIN messages[k + 1].content :
                         messages[k + 1].content[m].type = "tool_result"
                  /\ ToolUseIdsFrom(messages[k].content, 1) = <<>> =>
                         messages[k + 1].content = <<>>

\* C15 witness: a tool_use response with a text block only was followed
\* by an empty user message, and the next model call sent both.
C15_Witness ==
    /\ NumCalls >= 2
    /\ Len(model_calls[2].messages) = 3
    /\ Len(model_calls[2].messages[2].content) = 1
    /\ model_calls[2].messages[2].content[1].type = "text"
    /\ model_calls[2].messages[3].content = <<>>

\* C16: handlers run only in turns whose stop_reason is tool_use; on
\* end_turn the tool_use blocks of the content are ignored: no handler runs,
\* no tool_result is produced, the conversation is not extended and agent()
\* returns.
C16_HandlersOnlyOnToolUse ==
    /\ \A k \in DOMAIN handler_calls :
           /\ handler_calls[k].turn + 1 <= NumCalls
           /\ StopReasonOf(handler_calls[k].turn + 1) = "tool_use"
    /\ \A i \in 1..NumCalls :
           StopReasonOf(i) = "end_turn" =>
               /\ pc = "done"
               /\ HandlerCallsOf(i) = {}
               /\ tool_results = <<>>
               /\ pending = <<>>
               /\ messages = model_calls[i].messages

\* C16 witness: agent() returned on an end_turn response that held a
\* get_weather tool_use block.
C16_Witness ==
    /\ pc = "done"
    /\ \E k \in DOMAIN data.content :
           /\ data.content[k].type = "tool_use"
           /\ data.content[k].name = "get_weather"
    /\ HandlerCallsOf(NumCalls) = {}

\* C17: a todo command passes at most one statement to sql.query; add
\* with an empty argument, and any command other than init, add, done,
\* delete and list, passes none, leaves the database as it is and only prints
\* usage text.
C17_TodoAtMostOneStatement ==
    [][LET cmd == IF "TODO_CMD" \in DOMAIN todo_env THEN todo_env["TODO_CMD"] ELSE "list"
           arg == IF "TODO_ARG" \in DOMAIN todo_env THEN todo_env["TODO_ARG"] ELSE ""
       IN  /\ todo_sql = <<>>
           /\ Len(todo_sql') <= 1
           /\ (cmd = "add" /\ arg = "") =>
                  /\ todo_sql' = <<>>
                  /\ todo_store' = todo_store
                  /\ todo_pc' = "exit"
                  /\ todo_out' = <<"Usage: mix todo add <task>">>
           /\ cmd \notin {"init", "add", "done", "delete", "list"} =>
                  /\ todo_sql' = <<>>
                  /\ todo_store' = todo_store
                  /\ todo_pc' = "exit"
                  /\ todo_out' = <<"Usage:", "  mix todo init", "  mix todo add <task>",
                                   "  mix todo list", "  mix todo done <id>",
                                   "  mix todo delete <id>">>]_vars

\* C17 witness: add with TODO_ARG unset ended on a table with rows, with
\* the usage line and no statement.
C17_Witness ==
    /\ todo_pc = "exit"
    /\ "TODO_CMD" \in DOMAIN todo_env
    /\ todo_env["TODO_CMD"] = "add"
    /\ "TODO_ARG" \notin DOMAIN todo_env
    /\ Len(todo_store.rows) = 2
    /\ todo_sql = <<>>
    /\ todo_out = <<"Usage: mix todo add <task>">>

RECURSIVE ValueInBase(_, _)
\* The number whose digits in the given base are digits, most significant
\* first.
ValueInBase(digits, base) ==
    IF digits = <<>> THEN 0
    ELSE ValueInBase(SubSeq(digits, 1, Len(digits) - 1), base) * base
         + digits[Len(digits)]

\* The value of a hexadecimal digit character.
HexDigitValue(c) ==
    CHOOSE d \in 0..15 :
        <<"0", "1", "2", "3", "4", "5", "6", "7", "8", "9",
          "A", "B", "C", "D", "E", "F">>[d + 1] = c

\* C18: for n > 0, byte_list is the minimal big-endian byte representation
\* of n (elements in 0..255, first element not zero, value n), and the
\* Base16 string has two characters per byte and reads as hexadecimal n.
C18_BytesAndBase16 ==
    /\ enc_pc \in {"base16", "base32", "base64", "done"} =>
           /\ Len(byte_list) >= 1
           /\ \A k \in DOMAIN byte_list : byte_list[k] \in 0..255
           /\ byte_list[1] # 0
           /\ ValueInBase(byte_list, 256) = n
    /\ enc_pc \in {"base32", "base64", "done"} =>
           /\ Len(b16) = 2 * Len(byte_list)
           /\ \A k \in DOMAIN b16 :
                  b16[k] \in {"0", "1", "2", "3", "4", "5", "6", "7", "8", "9",
                              "A", "B", "C", "D", "E", "F"}
           /\ ValueInBase([k \in DOMAIN b16 |-> HexDigitValue(b16[k])], 16) = n

\* C18 witness: 65536 became the three bytes 1, 0, 0 and the text 010000.
C18_Witness ==
    /\ enc_pc = "done"
    /\ n = 65536
    /\ byte_list = <<1, 0, 0>>
    /\ b16 = <<"0", "1", "0", "0", "0", "0">>

====
